---- MODULE Spec2Model ----
(***************************************************************************)
(* Model of the annotation service: the GeoLite2 range-index builder       *)
(* (parser/geo-g2.go), the range search (search.SearchList) and the        *)
(* handler's lookup against the shared current dataset (handler.go).       *)
(*                                                                         *)
(* Addresses are held in the 16-byte form net.ParseIP/net.ParseCIDR        *)
(* return, scaled down: an address is a number of Width = AddrBits + 1     *)
(* bits.  The top bit stands for the 12 leading bytes (set for an          *)
(* IPv4-mapped address), the AddrBits low bits for the 4 trailing bytes.   *)
(* Text is a sequence of one-character strings.                            *)
(***************************************************************************)
EXTENDS Integers, Sequences, FiniteSets, TLC

\* Number of address bits of the IPv4 family in the model.
AddrBits == 2
\* Largest number of data records of a blocks file.
MaxRecs == 3

RECURSIVE Pow2(_)
Pow2(n) == IF n = 0 THEN 1 ELSE 2 * Pow2(n - 1)

Width == AddrBits + 1
\* Value of the leading bytes of an IPv4 address in 16-byte form.
V4Base == Pow2(AddrBits)
\* net.IPv4(255, 255, 255, 255)
MaxIPv4 == V4Base + Pow2(AddrBits) - 1

Last(s) == s[Len(s)]
Front(s) == SubSeq(s, 1, Len(s) - 1)

(***************************************************************************)
(* Text and the standard-library parsers the code calls.                   *)
(***************************************************************************)
DigitChars == <<"0", "1", "2", "3", "4", "5", "6", "7", "8", "9">>
IsDigit(c) == \E i \in 1..10 : DigitChars[i] = c
DigitVal(c) == (CHOOSE i \in 1..10 : DigitChars[i] = c) - 1
IsBit(c) == c = "0" \/ c = "1"

RECURSIVE DecVal(_)
DecVal(s) == IF Len(s) = 0 THEN 0 ELSE 10 * DecVal(Front(s)) + DigitVal(Last(s))

RECURSIVE BinVal(_)
BinVal(s) == IF Len(s) = 0 THEN 0 ELSE 2 * BinVal(Front(s)) + DigitVal(Last(s))

\* strconv.Atoi: a non-empty run of decimal digits, or an error and 0.
Atoi(s) ==
    IF Len(s) > 0 /\ \A i \in 1..Len(s) : IsDigit(s[i])
    THEN [val |-> DecVal(s), err |-> FALSE]
    ELSE [val |-> 0, err |-> TRUE]

\* strconv.ParseFloat, on the whole-number texts of the model.
ParseFloat(s) == Atoi(s)

\* net.ParseIP: an IPv4 literal has AddrBits binary digits, an IPv6 literal
\* Width; both come back in 16-byte form.  nil is [ok |-> FALSE].
ParseIP(s) ==
    IF Len(s) = AddrBits /\ \A i \in 1..Len(s) : IsBit(s[i])
    THEN [ok |-> TRUE, ip |-> V4Base + BinVal(s), v4 |-> TRUE]
    ELSE IF Len(s) = Width /\ \A i \in 1..Len(s) : IsBit(s[i])
    THEN [ok |-> TRUE, ip |-> BinVal(s), v4 |-> FALSE]
    ELSE [ok |-> FALSE, ip |-> 0, v4 |-> FALSE]

SlashAt(s) == IF \E i \in 1..Len(s) : s[i] = "/"
              THEN CHOOSE i \in 1..Len(s) : s[i] = "/"
              ELSE 0

\* net.ParseCIDR: "address/prefix".  ip is the address as written, masklen
\* the byte length of the mask (4 for IPv4, 16 for IPv6), ones its prefix
\* length.
ParseCIDR(s) ==
    LET k == SlashAt(s)
        a == ParseIP(SubSeq(s, 1, k - 1))
        p == Atoi(SubSeq(s, k + 1, Len(s)))
        bits == IF a.v4 THEN AddrBits ELSE Width
    IN  IF k > 0 /\ a.ok /\ ~p.err /\ p.val <= bits
        THEN [ok |-> TRUE, ip |-> a.ip, masklen |-> IF a.v4 THEN 4 ELSE 16,
              ones |-> p.val]
        ELSE [ok |-> FALSE, ip |-> 0, masklen |-> 0, ones |-> 0]

(***************************************************************************)
(* parser: CIDR range math and the helpers of the builder.                 *)
(***************************************************************************)
\* a | m for a mask m = 2^h - 1 of h low bits.
OrLowBits(a, h) == a - (a % Pow2(h)) + Pow2(h) - 1

\* rangeCIDR with the high bound masked down (ip[x] &= mask[x]) instead of
\* filled up.
rangeCIDRHighMasked(cidr) ==
    LET c == ParseCIDR(cidr)
        h == IF c.masklen = 4 THEN AddrBits - c.ones ELSE Width - c.ones
    IN  IF ~c.ok
        THEN [low |-> 0, high |-> 0, err |-> "Invalid CIDR IP range"]
        ELSE [low |-> c.ip, high |-> c.ip - (c.ip % Pow2(h)), err |-> ""]

rangeCIDR(cidr) ==
    LET c == ParseCIDR(cidr)
    IN  IF ~c.ok
        THEN [low |-> 0, high |-> 0, err |-> "Invalid CIDR IP range"]
        ELSE IF c.masklen = 4
        THEN [low |-> c.ip, high |-> OrLowBits(c.ip, AddrBits - c.ones), err |-> ""]
        ELSE [low |-> c.ip, high |-> OrLowBits(c.ip, Width - c.ones), err |-> ""]

\* Unsigned byte-wise comparison of two addresses of the same width.
lessThan(a, b) == a < b
PlusOne(a) == a + 1
minusOne(a) == a - 1

ipNumColumnsGlite2 == 10

checkNumColumns(record, size) ==
    IF record.ncols # size THEN "Corrupted Data: wrong number of columns" ELSE ""

lookupGeoId(gnid, idMap) ==
    LET g == Atoi(gnid)
    IN  IF g.err
        THEN [index |-> 0, err |-> "Corrupted Data: geonameID should be a number"]
        ELSE IF g.val \notin DOMAIN idMap
        THEN [index |-> 0, err |-> "Corrupted Data: geonameId not found"]
        ELSE [index |-> idMap[g.val], err |-> ""]

stringToFloat(str) ==
    LET f == ParseFloat(str)
    IN  IF f.err /\ Len(str) > 0
        THEN [val |-> 0, err |-> "Corrupted Data: should be an int"]
        ELSE [val |-> f.val, err |-> ""]

(***************************************************************************)
(* parser.LoadIPListGLite2: one blocks file into a list of IPNodes.        *)
(* A row of the file is [ncols, cidr, geo1, geo2, postal, lat, lon]:       *)
(* its number of columns and columns 0, 1, 2, 6, 7 and 8.                  *)
(***************************************************************************)
IPNode(low, high, index, postal, lat, lon) ==
    [IPAddressLow |-> low, IPAddressHigh |-> high, LocationIndex |-> index,
     PostalCode |-> postal, Latitude |-> lat, Longitude |-> lon]

ZeroIPNode == IPNode(0, 0, 0, <<>>, 0, 0)

\* The two lookups tried in the other order: the backup id first.
ResolveLocationBackupFirst(record, idMap) ==
    LET primary == lookupGeoId(record.geo1, idMap)
        backup == lookupGeoId(record.geo2, idMap)
    IN  IF backup.err = "" THEN backup.index
        ELSE IF primary.err = "" THEN primary.index
        ELSE backup.index

\* Lines 173-183: the primary id, else the backup id, else what the failed
\* primary lookup returned.
ResolveLocation(record, idMap) ==
    LET primary == lookupGeoId(record.geo1, idMap)
        backup == lookupGeoId(record.geo2, idMap)
    IN  IF primary.err = "" THEN primary.index
        ELSE IF backup.err = "" THEN backup.index
        ELSE primary.index

\* Lines 198-218: close the nested blocks newNode has left.
RECURSIVE CloseNested(_, _, _)
CloseNested(stk, lst, node) ==
    IF Len(stk) = 0
    THEN [stack |-> stk, list |-> lst]
    ELSE LET pop == Last(stk)
             rest == Front(stk)
         IN  IF Len(rest) = 0
             THEN [stack |-> rest, list |-> lst]
             ELSE LET peek == Last(rest)
                  IN  IF lessThan(node.IPAddressLow, peek.IPAddressHigh)
                      THEN [stack |-> rest,
                            list |-> Append(lst,
                                [peek EXCEPT !.IPAddressLow = PlusOne(pop.IPAddressHigh),
                                             !.IPAddressHigh = minusOne(node.IPAddressLow)])]
                      ELSE CloseNested(rest,
                                Append(lst,
                                    [peek EXCEPT !.IPAddressLow = PlusOne(pop.IPAddressHigh)]),
                                node)

\* The nesting branch with the stack holding the very entry of the list:
\* closing the list entry closes the stack's top as well.
CloseLastListNodeShared(stk, lst, node) ==
    [stack |-> [stk EXCEPT ![Len(stk)].IPAddressHigh = minusOne(node.IPAddressLow)],
     list |-> [lst EXCEPT ![Len(lst)].IPAddressHigh = minusOne(node.IPAddressLow)]]

\* Lines 219-224: close the last list entry where the new node begins.
CloseLastListNode(stk, lst, node) ==
    [stack |-> stk,
     list |-> [lst EXCEPT ![Len(lst)].IPAddressHigh = minusOne(node.IPAddressLow)]]

\* Lines 193-226.
ResolveNesting(stk, lst, node) ==
    IF Len(stk) # 0
    THEN IF lessThan(Last(stk).IPAddressHigh, node.IPAddressLow)
         THEN CloseNested(stk, lst, node)
         ELSE CloseLastListNode(stk, lst, node)
    ELSE [stack |-> stk, list |-> lst]

\* Lines 227-230: what the loop body leaves in list, stack and newNode.
PushNode(st, node) ==
    [list |-> Append(st.list, node),
     stack |-> Append(st.stack, node),
     newNode |-> [node EXCEPT !.IPAddressLow = node.IPAddressHigh,
                                 !.IPAddressHigh = MaxIPv4],
     err |-> ""]

BuildFailed(msg) == [list |-> <<>>, stack |-> <<>>, newNode |-> ZeroIPNode, err |-> msg]

BuildStart == [list |-> <<>>, stack |-> <<>>, newNode |-> ZeroIPNode, err |-> ""]

\* Lines 162-231: the loop body for one data record.
LoadIPRecord(st, record, idMap) ==
    LET colErr == checkNumColumns(record, ipNumColumnsGlite2)
        r == rangeCIDR(record.cidr)
        lat == stringToFloat(record.lat)
        lon == stringToFloat(record.lon)
        node == IPNode(r.low, r.high, ResolveLocation(record, idMap),
                          record.postal, lat.val, lon.val)
    IN  IF colErr # "" THEN BuildFailed(colErr)
        ELSE IF r.err # "" THEN BuildFailed(r.err)
        ELSE IF lat.err # "" THEN BuildFailed(lat.err)
        ELSE IF lon.err # "" THEN BuildFailed(lon.err)
        ELSE PushNode(ResolveNesting(st.stack, st.list, node), node)

RECURSIVE LoadIPRecords(_, _, _)
LoadIPRecords(st, records, idMap) ==
    IF Len(records) = 0 \/ st.err # ""
    THEN st
    ELSE LoadIPRecords(LoadIPRecord(st, Head(records), idMap), Tail(records), idMap)

\* The whole function on a file (header row first): [list, err].
LoadIPListGLite2(file, idMap) ==
    IF Len(file) = 0
    THEN [list |-> <<>>, err |-> "Empty input data"]
    ELSE LET st == LoadIPRecords(BuildStart, Tail(file), idMap)
         IN  [list |-> st.list, err |-> st.err]

(***************************************************************************)
(* parser.LoadLocListGLite2: the locations file into the location table    *)
(* and the geoname id map.  A row is [ncols, geoname, continent, country,  *)
(* countryName, city, metro]: its number of columns and columns 0, 2, 4,   *)
(* 5, 10 and 11.                                                           *)
(***************************************************************************)
locationNumColumnsGlite2 == 13

UpperChars == {"A", "B", "C", "D", "E", "F", "G", "H", "I", "J", "K", "L", "M",
               "N", "O", "P", "Q", "R", "S", "T", "U", "V", "W", "X", "Y", "Z"}

\* Upper-case letters only, or empty.
checkCaps(str, field) ==
    IF \A i \in 1..Len(str) : str[i] \in UpperChars
    THEN [val |-> str, err |-> ""]
    ELSE [val |-> <<>>, err |-> "Corrupted Data: should be all caps"]

\* regexp ^[^0-9]*$
NoDigits(str) == \A i \in 1..Len(str) : ~IsDigit(str[i])

LocationNode(id, continent, country, name, metro, city) ==
    [GeonameID |-> id, ContinentCode |-> continent, CountryCode |-> country,
     CountryName |-> name, MetroCode |-> metro, CityName |-> city]

ZeroLocationNode == LocationNode(0, <<>>, <<>>, <<>>, 0, <<>>)

EmptyMap == [g \in {} |-> 0]

LocFailed(msg) == [list |-> <<>>, idMap |-> EmptyMap, err |-> msg]

\* The loop body with a record that breaks a field rule passed over.
LoadLocRecordSkippingBad(st, record) ==
    LET id == Atoi(record.geoname)
        continent == checkCaps(record.continent, "Continent code")
        country == checkCaps(record.country, "Country code")
        metro == Atoi(record.metro)
        lNode == LocationNode(id.val, continent.val, country.val,
                              record.countryName, metro.val, record.city)
    IN  IF \/ record.ncols # locationNumColumnsGlite2
           \/ id.err /\ Len(record.geoname) > 0
           \/ continent.err # ""
           \/ country.err # ""
           \/ ~NoDigits(record.countryName)
           \/ metro.err /\ Len(record.metro) > 0
        THEN st
        ELSE [list |-> Append(st.list, lNode),
              idMap |-> (lNode.GeonameID :> Len(st.list)) @@ st.idMap,
              err |-> ""]

\* The loop body with the first index of a geoname id kept.
LoadLocRecordFirstWins(st, record) ==
    LET id == Atoi(record.geoname)
        continent == checkCaps(record.continent, "Continent code")
        country == checkCaps(record.country, "Country code")
        metro == Atoi(record.metro)
        lNode == LocationNode(id.val, continent.val, country.val,
                              record.countryName, metro.val, record.city)
    IN  IF record.ncols # locationNumColumnsGlite2
        THEN LocFailed("Corrupted Data: wrong number of columns")
        ELSE IF id.err /\ Len(record.geoname) > 0
        THEN LocFailed("Corrupted Data: GeonameID should be a number")
        ELSE IF continent.err # "" THEN LocFailed(continent.err)
        ELSE IF country.err # "" THEN LocFailed(country.err)
        ELSE IF ~NoDigits(record.countryName)
        THEN LocFailed("Corrupted Data: country name should be letters")
        ELSE IF metro.err /\ Len(record.metro) > 0
        THEN LocFailed("Corrupted Data: metrocode should be a number")
        ELSE [list |-> Append(st.list, lNode),
              idMap |-> st.idMap @@ (lNode.GeonameID :> Len(st.list)),
              err |-> ""]

\* Lines 92-138: the loop body for one data record.
LoadLocRecord(st, record) ==
    LET id == Atoi(record.geoname)
        continent == checkCaps(record.continent, "Continent code")
        country == checkCaps(record.country, "Country code")
        metro == Atoi(record.metro)
        lNode == LocationNode(id.val, continent.val, country.val,
                              record.countryName, metro.val, record.city)
    IN  IF record.ncols # locationNumColumnsGlite2
        THEN LocFailed("Corrupted Data: wrong number of columns")
        ELSE IF id.err /\ Len(record.geoname) > 0
        THEN LocFailed("Corrupted Data: GeonameID should be a number")
        ELSE IF continent.err # "" THEN LocFailed(continent.err)
        ELSE IF country.err # "" THEN LocFailed(country.err)
        ELSE IF ~NoDigits(record.countryName)
        THEN LocFailed("Corrupted Data: country name should be letters")
        ELSE IF metro.err /\ Len(record.metro) > 0
        THEN LocFailed("Corrupted Data: metrocode should be a number")
        ELSE [list |-> Append(st.list, lNode),
              idMap |-> (lNode.GeonameID :> Len(st.list)) @@ st.idMap,
              err |-> ""]

RECURSIVE LoadLocRecords(_, _)
LoadLocRecords(st, records) ==
    IF Len(records) = 0 \/ st.err # ""
    THEN st
    ELSE LoadLocRecords(LoadLocRecord(st, Head(records)), Tail(records))

\* The whole function on a file (header row first): [list, idMap, err].
LoadLocListGLite2(file) ==
    IF Len(file) = 0
    THEN LocFailed("Empty input data")
    ELSE LoadLocRecords([list |-> <<>>, idMap |-> EmptyMap, err |-> ""], Tail(file))

(***************************************************************************)
(* loader.FindFile and parser.LoadGeoLite2.  A zip archive is a record     *)
(* with one field per file name, each either <<>> (no such file) or        *)
(* <<rows>>.  A pointer is <<>> (nil) or a one-element sequence.           *)
(***************************************************************************)
FindFile(name, zip) ==
    IF Len(zip[name]) = 0
    THEN [rows |-> <<>>, err |-> "File not found"]
    ELSE [rows |-> zip[name][1], err |-> ""]

GeoDataset(ip4, ip6, loc) == [IP4Nodes |-> ip4, IP6Nodes |-> ip6, LocationNodes |-> loc]

LoadFailed(msg) == [data |-> <<>>, err |-> msg]

\* LoadGeoLite2 returning what it has built when the IPv6 blocks fail.
LoadGeoLite2KeepingPartial(zip) ==
    LET locations == FindFile("locations", zip)
        loc == LoadLocListGLite2(locations.rows)
        blocks4 == FindFile("blocks4", zip)
        ipNodes4 == LoadIPListGLite2(blocks4.rows, loc.idMap)
    IN  IF locations.err # "" THEN LoadFailed(locations.err)
        ELSE IF loc.err # "" THEN LoadFailed(loc.err)
        ELSE IF blocks4.err # "" THEN LoadFailed(blocks4.err)
        ELSE IF ipNodes4.err # "" THEN LoadFailed(ipNodes4.err)
        ELSE [data |-> <<GeoDataset(ipNodes4.list, <<>>, loc.list)>>, err |-> ""]

LoadGeoLite2(zip) ==
    LET locations == FindFile("locations", zip)
        loc == LoadLocListGLite2(locations.rows)
        blocks4 == FindFile("blocks4", zip)
        ipNodes4 == LoadIPListGLite2(blocks4.rows, loc.idMap)
        blocks6 == FindFile("blocks6", zip)
        ipNodes6 == LoadIPListGLite2(blocks6.rows, loc.idMap)
    IN  IF locations.err # "" THEN LoadFailed(locations.err)
        ELSE IF loc.err # "" THEN LoadFailed(loc.err)
        ELSE IF blocks4.err # "" THEN LoadFailed(blocks4.err)
        ELSE IF ipNodes4.err # "" THEN LoadFailed(ipNodes4.err)
        ELSE IF blocks6.err # "" THEN LoadFailed(blocks6.err)
        ELSE IF ipNodes6.err # "" THEN LoadFailed(ipNodes6.err)
        ELSE [data |-> <<GeoDataset(ipNodes4.list, ipNodes6.list, loc.list)>>, err |-> ""]

(***************************************************************************)
(* search.SearchList                                                       *)
(***************************************************************************)
\* InRange with the upper bound taken as exclusive.
InRangeHighExclusive(ip, n) == ip >= n.IPAddressLow /\ ip < n.IPAddressHigh

\* Line 23: the containment test.
InRange(ip, n) == ip >= n.IPAddressLow /\ ip <= n.IPAddressHigh

\* The scan returning the first node that contains the address.
SearchScanFirstHit(nodes, userIP, i, inRange, lastNodeIndex) ==
    IF \E k \in i..Len(nodes) : InRange(userIP, nodes[k])
    THEN [node |-> nodes[CHOOSE k \in i..Len(nodes) :
                            /\ InRange(userIP, nodes[k])
                            /\ \A j \in i..(k - 1) : ~InRange(userIP, nodes[j])],
          err |-> ""]
    ELSE [node |-> ZeroIPNode, err |-> "Node not found"]

\* Lines 22-33: the scan from index i on, with the loop's two locals.
RECURSIVE SearchScan(_, _, _, _, _)
SearchScan(nodes, userIP, i, inRange, lastNodeIndex) ==
    IF i > Len(nodes)
    THEN IF inRange
         THEN [node |-> nodes[lastNodeIndex], err |-> ""]
         ELSE [node |-> ZeroIPNode, err |-> "Node not found"]
    ELSE IF InRange(userIP, nodes[i])
    THEN SearchScan(nodes, userIP, i + 1, TRUE, i)
    ELSE IF inRange /\ userIP < nodes[i].IPAddressLow
    THEN [node |-> nodes[lastNodeIndex], err |-> ""]
    ELSE SearchScan(nodes, userIP, i + 1, inRange, lastNodeIndex)

SearchList(nodes, ipLookUp) ==
    LET userIP == ParseIP(ipLookUp)
    IN  IF ~userIP.ok
        THEN [node |-> ZeroIPNode, err |-> "Invalid search IP"]
        ELSE SearchScan(nodes, userIP.ip, 1, FALSE, 0)

(***************************************************************************)
(* handler.ConvertIPNodeToMetaData: the pointer to the MetaData, or a      *)
(* run-time panic when the location index is past the table.               *)
(***************************************************************************)
MetaData(locNode, ipNode) ==
    [Continent_code |-> locNode.ContinentCode, Country_code |-> locNode.CountryCode,
     Country_name |-> locNode.CountryName, Postal_code |-> ipNode.PostalCode,
     Metro_code |-> locNode.MetroCode, City |-> locNode.CityName,
     Latitude |-> ipNode.Latitude, Longitude |-> ipNode.Longitude]

ConvertIPNodeToMetaData(ipNode, locationNodes) ==
    IF ipNode.LocationIndex >= 0
    THEN IF ipNode.LocationIndex < Len(locationNodes)
         THEN [ptr |-> <<MetaData(locationNodes[ipNode.LocationIndex + 1], ipNode)>>,
               panic |-> FALSE]
         ELSE [ptr |-> <<>>, panic |-> TRUE]
    ELSE [ptr |-> <<MetaData(ZeroLocationNode, ipNode)>>, panic |-> FALSE]

(***************************************************************************)
(* State.                                                                  *)
(***************************************************************************)
VARIABLES
    \* One run of LoadIPListGLite2: the rows of its reader, how many of
    \* them were read, the function's locals and where it stands.
    reader, rd, list, stack, newNode, err, pc,
    \* One call of SearchList: its arguments, where it stands, its result.
    sList, sLookUp, spc, sOut,
    \* handler: the shared pointer and its RWMutex (the lookups holding the
    \* read lock, whether the write lock is held, whether a Lock call is
    \* waiting for the readers to leave).
    CurrentGeoDataset, rwReaders, rwWriter, rwWaiting,
    \* Each call of GetMetadataForSingleIP: where it stands, its request,
    \* the node list it read, what SearchList returned, the location table
    \* it read, the pointer it returns.
    hpc, request, nodesRead, found, locsRead, ret,
    \* The refresh task: where it stands, the archive it loads, what
    \* LoadGeoLite2 returned.
    wpc, archive, loaded,
    \* One call of rangeCIDR: its argument, where it stands, its results.
    cArg, cpc, cRet,
    \* One call of LoadLocListGLite2: the rows of its reader, where it
    \* stands, its results.
    locReader, lpc, locRet,
    \* One call of LoadGeoLite2: its argument, where it stands, its results.
    zArg, zpc, zRet

buildVars == <<reader, rd, list, stack, newNode, err, pc>>
searchVars == <<sList, sLookUp, spc, sOut>>
mutexVars == <<rwReaders, rwWriter, rwWaiting>>
lookupVars == <<hpc, request, nodesRead, found, locsRead, ret>>
refreshVars == <<wpc, archive, loaded>>
handlerVars == <<CurrentGeoDataset, mutexVars, lookupVars, refreshVars>>
cidrVars == <<cArg, cpc, cRet>>
locVars == <<locReader, lpc, locRet>>
loadVars == <<zArg, zpc, zRet>>
parserVars == <<cidrVars, locVars, loadVars>>
vars == <<buildVars, searchVars, handlerVars, parserVars>>

\* Number of calls of GetMetadataForSingleIP.
NLookups == 2
Lookups == 1..NLookups

NoZip == [locations |-> <<>>, blocks4 |-> <<>>, blocks6 |-> <<>>]
NoRequest == [IP |-> <<>>, IPFormat |-> 0]
NotSearched == [node |-> ZeroIPNode, err |-> ""]
NotLoaded == [data |-> <<>>, err |-> ""]

HandlerIdle ==
    /\ CurrentGeoDataset = <<>>
    /\ rwReaders = {} /\ rwWriter = FALSE /\ rwWaiting = FALSE
    /\ hpc = [r \in Lookups |-> "idle"]
    /\ request = [r \in Lookups |-> NoRequest]
    /\ nodesRead = [r \in Lookups |-> <<>>]
    /\ found = [r \in Lookups |-> NotSearched]
    /\ locsRead = [r \in Lookups |-> <<>>]
    /\ ret = [r \in Lookups |-> <<>>]
    /\ wpc = "idle" /\ archive = NoZip /\ loaded = NotLoaded

BuildIdle ==
    /\ reader = <<>> /\ rd = 0 /\ list = <<>> /\ stack = <<>>
    /\ newNode = ZeroIPNode /\ err = "" /\ pc = "idle"

SearchIdle ==
    /\ sList = <<>> /\ sLookUp = <<>> /\ spc = "idle"
    /\ sOut = NotSearched

NotRanged == [low |-> 0, high |-> 0, err |-> ""]

ParserIdle ==
    /\ cArg = <<>> /\ cpc = "idle" /\ cRet = NotRanged
    /\ locReader = <<>> /\ lpc = "idle" /\ locRet = LocFailed("")
    /\ zArg = NoZip /\ zpc = "idle" /\ zRet = NotLoaded

(***************************************************************************)
(* Input files.                                                            *)
(***************************************************************************)
RECURSIVE BitsOf(_, _)
BitsOf(a, n) == IF n = 0 THEN <<>> ELSE Append(BitsOf(a \div 2, n - 1), DigitChars[(a % 2) + 1])

\* An IPv4 block <<a, p>> is the network a/p, a a multiple of 2^(AddrBits-p).
V4Blocks == {b \in (0..(Pow2(AddrBits) - 1)) \X (0..AddrBits) :
                b[1] % Pow2(AddrBits - b[2]) = 0}
V6Blocks == {b \in (0..(Pow2(Width) - 1)) \X (0..Width) :
                b[1] % Pow2(Width - b[2]) = 0}

V4Cidr(b) == BitsOf(b[1], AddrBits) \o <<"/", DigitChars[b[2] + 1]>>
V6Cidr(b) == BitsOf(b[1], Width) \o <<"/", DigitChars[b[2] + 1]>>

\* The order of the feed: ascending network address, an enclosing block
\* before the blocks nested in it.
BlockBefore(b, c) == b[1] < c[1] \/ (b[1] = c[1] /\ b[2] < c[2])

RECURSIVE OrderedBlocks(_)
OrderedBlocks(n) ==
    IF n = 0 THEN {<<>>}
    ELSE LET prev == OrderedBlocks(n - 1)
         IN  prev \cup {Append(s, b) : <<s, b>> \in
                          {x \in prev \X V4Blocks :
                              /\ Len(x[1]) = n - 1
                              /\ (n = 1 \/ BlockBefore(Last(x[1]), x[2]))}}

\* The locations file of the builder runs: geoname ids 17 and 23.
LocRow(geoname, continent, country, name, city, metro) ==
    [ncols |-> locationNumColumnsGlite2, geoname |-> geoname, continent |-> continent,
     country |-> country, countryName |-> name, city |-> city, metro |-> metro]

LocHeader == LocRow(<<"g">>, <<"c">>, <<"i">>, <<"n">>, <<"c">>, <<"m">>)

BuildLocFile ==
    <<LocHeader,
      LocRow(<<"1", "7">>, <<"E", "U">>, <<"C", "H">>, <<"S">>, <<"Z">>, <<>>),
      LocRow(<<"2", "3">>, <<"N", "A">>, <<"U", "S">>, <<"U">>, <<"N">>, <<"5">>)>>

BuildIdMap == LoadLocListGLite2(BuildLocFile).idMap
BuildLocations == LoadLocListGLite2(BuildLocFile).list

\* The geoname and coordinate columns a data row may carry: primary id in
\* the table; only the backup id in the table; neither in the table.
GeoColumns ==
    <<[geo1 |-> <<"1", "7">>, geo2 |-> <<"2", "3">>, lat |-> <<"4", "7">>, lon |-> <<"8">>],
      [geo1 |-> <<"9", "9">>, geo2 |-> <<"2", "3">>, lat |-> <<"5">>, lon |-> <<"9">>],
      [geo1 |-> <<"9", "9">>, geo2 |-> <<"9", "8">>, lat |-> <<>>, lon |-> <<>>]>>

BlockRow(cidr, geo, bad) ==
    [ncols |-> IF bad = "cols" THEN ipNumColumnsGlite2 - 1 ELSE ipNumColumnsGlite2,
     cidr |-> IF bad = "cidr" THEN <<"x">> ELSE cidr,
     geo1 |-> geo.geo1, geo2 |-> geo.geo2, postal |-> <<"9">>,
     lat |-> IF bad = "lat" THEN <<"x">> ELSE geo.lat,
     lon |-> IF bad = "lon" THEN <<"x">> ELSE geo.lon]

BlockHeader == BlockRow(<<"n">>, GeoColumns[1], "")

\* A blocks file: the header, then the blocks in feed order; row i carries
\* the geo columns (i + shift) mod 3, and the last row the defect bad.
BlocksFile(blocks, shift, bad) ==
    <<BlockHeader>> \o
    [i \in 1..Len(blocks) |->
        BlockRow(V4Cidr(blocks[i]), GeoColumns[((i + shift) % Len(GeoColumns)) + 1],
                 IF i = Len(blocks) THEN bad ELSE "")]

Defects == {"", "cols", "cidr", "lat", "lon"}

BuildFiles ==
    {<<>>} \cup
    {BlocksFile(blocks, shift, bad) :
        <<blocks, shift, bad>> \in
            {x \in OrderedBlocks(MaxRecs) \X (0..(Len(GeoColumns) - 1)) \X Defects :
                x[3] = "" \/ Len(x[1]) > 0}}

(***************************************************************************)
(* SpecBuild: one run of LoadIPListGLite2 on any blocks file.              *)
(***************************************************************************)
InitBuild ==
    /\ reader \in BuildFiles
    /\ rd = 0 /\ list = <<>> /\ stack = <<>> /\ newNode = ZeroIPNode /\ err = ""
    /\ pc = "header"
    /\ SearchIdle
    /\ HandlerIdle
    /\ ParserIdle

\* Lines 149-153: the header row is read; no row at all is an error.
ReadHeader ==
    /\ pc = "header"
    /\ IF Len(reader) = 0
       THEN /\ err' = "Empty input data"
            /\ pc' = "failed"
            /\ rd' = rd
       ELSE /\ rd' = 1
            /\ pc' = "loop"
            /\ err' = err
    /\ UNCHANGED <<reader, list, stack, newNode, searchVars, handlerVars, parserVars>>

\* Lines 158-231: one data row is read and handled.
ReadRecord ==
    /\ pc = "loop"
    /\ rd < Len(reader)
    /\ LET st == LoadIPRecord([list |-> list, stack |-> stack, newNode |-> newNode,
                               err |-> err], reader[rd + 1], BuildIdMap)
       IN  /\ list' = st.list
           /\ stack' = st.stack
           /\ newNode' = st.newNode
           /\ err' = st.err
           /\ pc' = IF st.err # "" THEN "failed" ELSE "loop"
    /\ rd' = rd + 1
    /\ UNCHANGED <<reader, searchVars, handlerVars, parserVars>>

\* Lines 159-161 and 233: end of file, the list is returned.
ReturnList ==
    /\ pc = "loop"
    /\ rd = Len(reader)
    /\ pc' = "done"
    /\ UNCHANGED <<reader, rd, list, stack, newNode, err, searchVars, handlerVars, parserVars>>

NextBuild == ReadHeader \/ ReadRecord \/ ReturnList

SpecBuild == InitBuild /\ [][NextBuild]_vars

(***************************************************************************)
(* Properties of the built list (SpecBuild).                               *)
(***************************************************************************)
\* The data rows of the file being read, and the block of each.
DataRows == Tail(reader)
RowLow(row) == rangeCIDR(row.cidr).low
RowHigh(row) == rangeCIDR(row.cidr).high
RowContains(row, a) == RowLow(row) <= a /\ a <= RowHigh(row)
BothIdsAbsent(row) ==
    /\ lookupGeoId(row.geo1, BuildIdMap).err # ""
    /\ lookupGeoId(row.geo2, BuildIdMap).err # ""

V4Texts == {BitsOf(a, AddrBits) : a \in 0..(Pow2(AddrBits) - 1)}

V6Texts == {BitsOf(a, Width) : a \in 0..(Pow2(Width) - 1)}

\* In feed order the innermost block containing a is the last that does.
InnermostRow(a) ==
    DataRows[CHOOSE i \in 1..Len(DataRows) :
                /\ RowContains(DataRows[i], a)
                /\ \A j \in (i + 1)..Len(DataRows) : ~RowContains(DataRows[j], a)]

Disjoint(n, m) ==
    \/ n.IPAddressHigh < m.IPAddressLow
    \/ m.IPAddressHigh < n.IPAddressLow

\* C1: for every address inside at least one input block, SearchList on the
\* returned list finds a node carrying the location reference of the
\* innermost input block that contains the address.
C1_EndToEndResolution ==
    pc = "done" =>
        \A q \in V4Texts :
            (\E i \in 1..Len(DataRows) : RowContains(DataRows[i], ParseIP(q).ip)) =>
                LET res == SearchList(list, q)
                IN  /\ res.err = ""
                    /\ res.node.LocationIndex =
                          ResolveLocation(InnermostRow(ParseIP(q).ip), BuildIdMap)

\* C2: the returned list is strictly ascending by low, and any two of its
\* nodes are disjoint.
C2_AscendingDisjoint ==
    pc = "done" =>
        \A i, j \in 1..Len(list) :
            i < j => /\ list[i].IPAddressLow < list[j].IPAddressLow
                     /\ Disjoint(list[i], list[j])

\* C3: every node of the returned list has low <= high.
C3_LowAtMostHigh ==
    pc = "done" =>
        \A i \in 1..Len(list) : list[i].IPAddressLow <= list[i].IPAddressHigh

\* C4: a parent block P followed by one block C strictly inside it yields
\* exactly [P.low, C.low-1] -> P, [C.low, C.high] -> C, [C.high+1, max] -> P.
Bounds(n) == <<n.IPAddressLow, n.IPAddressHigh, n.LocationIndex>>

C4_NestedPairYieldsThree ==
    (/\ pc = "done"
     /\ Len(DataRows) = 2
     /\ RowLow(DataRows[1]) < RowLow(DataRows[2])
     /\ RowHigh(DataRows[2]) < RowHigh(DataRows[1]))
    => LET P == DataRows[1]
           C == DataRows[2]
       IN  /\ Len(list) = 3
           /\ Bounds(list[1]) = <<RowLow(P), RowLow(C) - 1, ResolveLocation(P, BuildIdMap)>>
           /\ Bounds(list[2]) = <<RowLow(C), RowHigh(C), ResolveLocation(C, BuildIdMap)>>
           /\ Bounds(list[3]) = <<RowHigh(C) + 1, MaxIPv4, ResolveLocation(P, BuildIdMap)>>

\* C5: a row whose primary and backup geoname ids are both missing from the
\* id map yields a node whose location reference is no index of the
\* location table.
C5_MissingIdsGiveNoLocation ==
    (/\ pc \in {"loop", "done"}
     /\ rd >= 2
     /\ BothIdsAbsent(reader[rd]))
    => Last(list).LocationIndex \notin 0..(Len(BuildLocations) - 1)

(***************************************************************************)
(* SpecSearch: one call of SearchList on any list that is ascending by     *)
(* low with pairwise disjoint ranges, for any address text.                *)
(***************************************************************************)
\* Largest number of nodes of a searched list.
MaxNodes == 3

V4Addrs == V4Base..MaxIPv4

\* Node k of a hand-built list carries location index k - 1.
RECURSIVE DisjointLists(_)
DisjointLists(n) ==
    IF n = 0 THEN {<<>>}
    ELSE LET prev == DisjointLists(n - 1)
         IN  prev \cup
             {Append(x[1], IPNode(x[2], x[3], n - 1, <<>>, 0, 0)) :
                 x \in {y \in prev \X V4Addrs \X V4Addrs :
                          /\ Len(y[1]) = n - 1
                          /\ y[2] <= y[3]
                          /\ (n = 1 \/ Last(y[1]).IPAddressHigh < y[2])}}

LookUpTexts == V4Texts \cup V6Texts \cup {<<>>, <<"x">>}

InitSearch ==
    /\ sList \in DisjointLists(MaxNodes)
    /\ sLookUp \in LookUpTexts
    /\ spc = "call"
    /\ sOut = NotSearched
    /\ BuildIdle
    /\ HandlerIdle
    /\ ParserIdle

RunSearchList ==
    /\ spc = "call"
    /\ sOut' = SearchList(sList, sLookUp)
    /\ spc' = "returned"
    /\ UNCHANGED <<sList, sLookUp, buildVars, handlerVars, parserVars>>

NextSearch == RunSearchList

SpecSearch == InitSearch /\ [][NextSearch]_vars

sIP == ParseIP(sLookUp).ip

\* C6: on an ascending, non-overlapping list and a parsable address,
\* SearchList returns node n exactly when n.low <= ip <= n.high, and fails
\* with "Node not found" exactly when no node contains ip.
C6_SearchFindsContainingNode ==
    (spc = "returned" /\ ParseIP(sLookUp).ok) =>
        /\ \A i \in 1..Len(sList) :
              (sOut.err = "" /\ sOut.node = sList[i])
                  <=> (sList[i].IPAddressLow <= sIP /\ sIP <= sList[i].IPAddressHigh)
        /\ (sOut.err = "Node not found")
              <=> ~\E i \in 1..Len(sList) :
                      sList[i].IPAddressLow <= sIP /\ sIP <= sList[i].IPAddressHigh
        /\ sOut.err \in {"", "Node not found"}

\* A query for the high bound of the second of two ranges, which is not
\* its low bound, has returned that range.
C6_Witness ==
    /\ spc = "returned"
    /\ ParseIP(sLookUp).ok
    /\ Len(sList) >= 2
    /\ sIP = sList[2].IPAddressHigh
    /\ sIP > sList[2].IPAddressLow
    /\ sOut.err = ""
    /\ sOut.node = sList[2]

(***************************************************************************)
(* Spec: lookups (handler.GetMetadataForSingleIP) running concurrently     *)
(* with the refresh task, which loads an archive with LoadGeoLite2 and     *)
(* installs the dataset under the write lock.                              *)
(***************************************************************************)
Zip(loc, b4, b6) == [locations |-> loc, blocks4 |-> b4, blocks6 |-> b6]

LocFileB ==
    <<LocHeader,
      LocRow(<<"2", "3">>, <<"N", "A">>, <<"U", "S">>, <<"U">>, <<"N">>, <<"5">>)>>
LocFileLowerCase ==
    <<LocHeader,
      LocRow(<<"1", "7">>, <<"e", "u">>, <<"C", "H">>, <<"S">>, <<"Z">>, <<>>)>>

Blocks4A == <<BlockHeader, BlockRow(V4Cidr(<<0, 0>>), GeoColumns[1], ""),
              BlockRow(V4Cidr(<<1, AddrBits>>), GeoColumns[2], "")>>
Blocks6A == <<BlockHeader, BlockRow(V6Cidr(<<0, 1>>), GeoColumns[1], "")>>
Blocks4B == <<BlockHeader, BlockRow(V4Cidr(<<Pow2(AddrBits - 1), 1>>), GeoColumns[2], "")>>
Blocks6B == <<BlockHeader, BlockRow(V6Cidr(<<0, Width - 1>>), GeoColumns[2], "")>>
Blocks4BadLat == <<BlockHeader, BlockRow(V4Cidr(<<0, 0>>), GeoColumns[1], "lat")>>
Blocks6BadCols == <<BlockHeader, BlockRow(V6Cidr(<<0, 1>>), GeoColumns[1], "cols")>>

ZipA == Zip(<<BuildLocFile>>, <<Blocks4A>>, <<Blocks6A>>)
ZipB == Zip(<<LocFileB>>, <<Blocks4B>>, <<Blocks6B>>)
\* Archives whose build fails in the locations file, in the IPv4 blocks,
\* in the IPv6 blocks, and for want of the IPv6 blocks file.
ZipBadLoc == Zip(<<LocFileLowerCase>>, <<Blocks4A>>, <<Blocks6A>>)
ZipBad4 == Zip(<<BuildLocFile>>, <<Blocks4BadLat>>, <<Blocks6A>>)
ZipBad6 == Zip(<<BuildLocFile>>, <<Blocks4A>>, <<Blocks6BadCols>>)
ZipNo6 == Zip(<<BuildLocFile>>, <<Blocks4A>>, <<>>)

Zips == {ZipA, ZipB, ZipBadLoc, ZipBad4, ZipBad6, ZipNo6}

\* The lowest and the highest IPv4 address, an IPv6 address, a request of
\* unknown format and one whose address does not parse.
Requests ==
    {[IP |-> BitsOf(0, AddrBits), IPFormat |-> 4],
     [IP |-> BitsOf(Pow2(AddrBits) - 1, AddrBits), IPFormat |-> 4],
     [IP |-> BitsOf(1, Width), IPFormat |-> 6],
     [IP |-> BitsOf(0, AddrBits), IPFormat |-> 0],
     [IP |-> <<"x">>, IPFormat |-> 4]}

Init ==
    /\ HandlerIdle
    /\ BuildIdle
    /\ SearchIdle
    /\ ParserIdle

\* Lines 164-165: a call with some request.
Call(r) ==
    /\ hpc[r] = "idle"
    /\ \E req \in Requests : request' = [request EXCEPT ![r] = req]
    /\ hpc' = [hpc EXCEPT ![r] = "check"]
    /\ UNCHANGED <<CurrentGeoDataset, mutexVars, nodesRead, found, locsRead, ret,
                   refreshVars, buildVars, searchVars, parserVars>>

\* Lines 166-169: the test for an unset dataset; nil is returned at once.
CheckNil(r) ==
    /\ hpc[r] = "check"
    /\ IF CurrentGeoDataset = <<>>
       THEN /\ ret' = [ret EXCEPT ![r] = <<>>]
            /\ hpc' = [hpc EXCEPT ![r] = "ret168"]
       ELSE /\ ret' = ret
            /\ hpc' = [hpc EXCEPT ![r] = "rlock"]
    /\ UNCHANGED <<CurrentGeoDataset, mutexVars, request, nodesRead, found, locsRead,
                   refreshVars, buildVars, searchVars, parserVars>>

\* Lines 171-173: err is set to the unknown-format error and the read lock
\* is taken; RLock waits while the write lock is held or asked for.
RLock(r) ==
    /\ hpc[r] = "rlock"
    /\ ~rwWriter /\ ~rwWaiting
    /\ rwReaders' = rwReaders \cup {r}
    /\ found' = [found EXCEPT ![r] = [node |-> ZeroIPNode, err |-> "Unknown IP Format!"]]
    /\ hpc' = [hpc EXCEPT ![r] = "search"]
    /\ UNCHANGED <<CurrentGeoDataset, rwWriter, rwWaiting, request, nodesRead, locsRead,
                   ret, refreshVars, buildVars, searchVars, parserVars>>

\* Search with the read lock released as soon as the search is over.
SearchThenUnlock(r) ==
    /\ hpc[r] = "search"
    /\ LET nodes == IF request[r].IPFormat = 4 THEN CurrentGeoDataset[1].IP4Nodes
                    ELSE IF request[r].IPFormat = 6 THEN CurrentGeoDataset[1].IP6Nodes
                    ELSE nodesRead[r]
           res == IF request[r].IPFormat \in {4, 6}
                  THEN SearchList(nodes, request[r].IP)
                  ELSE found[r]
       IN  /\ nodesRead' = [nodesRead EXCEPT ![r] = nodes]
           /\ found' = [found EXCEPT ![r] = res]
           /\ IF res.err # ""
              THEN /\ ret' = [ret EXCEPT ![r] = <<>>]
                   /\ hpc' = [hpc EXCEPT ![r] = "unlock185"]
              ELSE /\ ret' = ret
                   /\ hpc' = [hpc EXCEPT ![r] = "convert"]
    /\ rwReaders' = rwReaders \ {r}
    /\ UNCHANGED <<CurrentGeoDataset, rwWriter, rwWaiting, request, locsRead,
                   refreshVars, buildVars, searchVars, parserVars>>

\* Search with RUnlock called before the last return only, not deferred: the
\* error return leaves with the read lock held.
SearchNoDefer(r) ==
    /\ hpc[r] = "search"
    /\ LET nodes == IF request[r].IPFormat = 4 THEN CurrentGeoDataset[1].IP4Nodes
                    ELSE IF request[r].IPFormat = 6 THEN CurrentGeoDataset[1].IP6Nodes
                    ELSE nodesRead[r]
           res == IF request[r].IPFormat \in {4, 6}
                  THEN SearchList(nodes, request[r].IP)
                  ELSE found[r]
       IN  /\ nodesRead' = [nodesRead EXCEPT ![r] = nodes]
           /\ found' = [found EXCEPT ![r] = res]
           /\ IF res.err # ""
              THEN /\ ret' = [ret EXCEPT ![r] = <<>>]
                   /\ hpc' = [hpc EXCEPT ![r] = "ret185"]
              ELSE /\ ret' = ret
                   /\ hpc' = [hpc EXCEPT ![r] = "convert"]
    /\ UNCHANGED <<CurrentGeoDataset, mutexVars, request, locsRead,
                   refreshVars, buildVars, searchVars, parserVars>>

\* Lines 176-186: the node list of the request's family is read from the
\* current dataset and searched; an error returns nil.
Search(r) ==
    /\ hpc[r] = "search"
    /\ LET nodes == IF request[r].IPFormat = 4 THEN CurrentGeoDataset[1].IP4Nodes
                    ELSE IF request[r].IPFormat = 6 THEN CurrentGeoDataset[1].IP6Nodes
                    ELSE nodesRead[r]
           res == IF request[r].IPFormat \in {4, 6}
                  THEN SearchList(nodes, request[r].IP)
                  ELSE found[r]
       IN  /\ nodesRead' = [nodesRead EXCEPT ![r] = nodes]
           /\ found' = [found EXCEPT ![r] = res]
           /\ IF res.err # ""
              THEN /\ ret' = [ret EXCEPT ![r] = <<>>]
                   /\ hpc' = [hpc EXCEPT ![r] = "unlock185"]
              ELSE /\ ret' = ret
                   /\ hpc' = [hpc EXCEPT ![r] = "convert"]
    /\ UNCHANGED <<CurrentGeoDataset, mutexVars, request, locsRead,
                   refreshVars, buildVars, searchVars, parserVars>>

\* Line 188: the location table is read from the current dataset and the
\* node converted.
Convert(r) ==
    /\ hpc[r] = "convert"
    /\ LET locs == CurrentGeoDataset[1].LocationNodes
           md == ConvertIPNodeToMetaData(found[r].node, locs)
       IN  /\ locsRead' = [locsRead EXCEPT ![r] = locs]
           /\ ret' = [ret EXCEPT ![r] = md.ptr]
           /\ hpc' = [hpc EXCEPT ![r] = IF md.panic THEN "unlockPanic" ELSE "unlock188"]
    /\ UNCHANGED <<CurrentGeoDataset, mutexVars, request, nodesRead, found,
                   refreshVars, buildVars, searchVars, parserVars>>

\* Line 173: the deferred RUnlock, run as the function returns.
RUnlock(r) ==
    /\ hpc[r] \in {"unlock185", "unlock188", "unlockPanic"}
    /\ rwReaders' = rwReaders \ {r}
    /\ hpc' = [hpc EXCEPT ![r] = CASE hpc[r] = "unlock185" -> "ret185"
                                   [] hpc[r] = "unlock188" -> "ret188"
                                   [] OTHER -> "panicked"]
    /\ UNCHANGED <<CurrentGeoDataset, rwWriter, rwWaiting, request, nodesRead, found,
                   locsRead, ret, refreshVars, buildVars, searchVars, parserVars>>

\* The refresh task builds a dataset from an archive, off to the side.
Load ==
    /\ wpc = "idle"
    /\ \E z \in Zips :
          /\ archive' = z
          /\ loaded' = LoadGeoLite2(z)
    /\ wpc' = "loaded"
    /\ UNCHANGED <<CurrentGeoDataset, mutexVars, lookupVars, buildVars, searchVars, parserVars>>

\* A failed build is dropped; the current dataset is left as it is.
DropFailed ==
    /\ wpc = "loaded"
    /\ loaded.err # ""
    /\ wpc' = "idle"
    /\ archive' = NoZip
    /\ loaded' = NotLoaded
    /\ UNCHANGED <<CurrentGeoDataset, mutexVars, lookupVars, buildVars, searchVars, parserVars>>

\* currentDataMutex.Lock(): announce the writer, ...
Lock ==
    /\ wpc = "loaded"
    /\ loaded.err = ""
    /\ rwWaiting' = TRUE
    /\ wpc' = "locking"
    /\ UNCHANGED <<CurrentGeoDataset, rwReaders, rwWriter, lookupVars, archive, loaded,
                   buildVars, searchVars, parserVars>>

\* ... and hold the lock once the readers have left.
Acquire ==
    /\ wpc = "locking"
    /\ rwReaders = {}
    /\ rwWriter' = TRUE
    /\ rwWaiting' = FALSE
    /\ wpc' = "locked"
    /\ UNCHANGED <<CurrentGeoDataset, rwReaders, lookupVars, archive, loaded,
                   buildVars, searchVars, parserVars>>

\* The pointer is replaced by the new dataset.
Swap ==
    /\ wpc = "locked"
    /\ CurrentGeoDataset' = loaded.data
    /\ wpc' = "swapped"
    /\ UNCHANGED <<mutexVars, lookupVars, archive, loaded, buildVars, searchVars, parserVars>>

\* currentDataMutex.Unlock()
Unlock ==
    /\ wpc = "swapped"
    /\ rwWriter' = FALSE
    /\ wpc' = "idle"
    /\ archive' = NoZip
    /\ loaded' = NotLoaded
    /\ UNCHANGED <<CurrentGeoDataset, rwReaders, rwWaiting, lookupVars,
                   buildVars, searchVars, parserVars>>

Next ==
    \/ \E r \in Lookups :
          Call(r) \/ CheckNil(r) \/ RLock(r) \/ Search(r) \/ Convert(r) \/ RUnlock(r)
    \/ Load \/ DropFailed \/ Lock \/ Acquire \/ Swap \/ Unlock

Spec == Init /\ [][Next]_vars

(***************************************************************************)
(* Properties of the lookups and the refresh task (Spec).                  *)
(***************************************************************************)
\* The datasets a complete build of some archive gives.
BuiltDatasets ==
    {GeoDataset(LoadIPListGLite2(z.blocks4[1], LoadLocListGLite2(z.locations[1]).idMap).list,
                LoadIPListGLite2(z.blocks6[1], LoadLocListGLite2(z.locations[1]).idMap).list,
                LoadLocListGLite2(z.locations[1]).list) : z \in {ZipA, ZipB}}

Converted(r) == hpc[r] \in {"unlock188", "ret188", "unlockPanic", "panicked"}

\* C7: the node list a lookup searched and the location table it read
\* belong to one and the same completely built dataset, whatever the
\* interleaving with the refresh task's swaps.
C7_OneDatasetPerLookup ==
    \A r \in Lookups :
        Converted(r) =>
            \E d \in BuiltDatasets :
                /\ nodesRead[r] = IF request[r].IPFormat = 4 THEN d.IP4Nodes ELSE d.IP6Nodes
                /\ locsRead[r] = d.LocationNodes

\* A lookup has converted its node while the refresh task, holding another
\* dataset, waits for the write lock.
C7_Witness ==
    \E r \in Lookups :
        /\ hpc[r] = "unlock188"
        /\ wpc = "locking"
        /\ loaded.data # CurrentGeoDataset

\* C8: what a lookup returns when no dataset is published differs from what
\* a lookup returns when the published dataset has no range containing the
\* address.
C8_NotReadyDistinctFromNotFound ==
    \A r1, r2 \in Lookups :
        (/\ hpc[r1] = "ret168"
         /\ hpc[r2] = "ret185"
         /\ found[r2].err = "Node not found")
        => ret[r1] # ret[r2]

\* C9: every step of a lookup that reads CurrentGeoDataset (the nil test,
\* the read of the node list, the read of the location table) is taken with
\* the read lock held by that lookup.
C9_ReadsUnderReadLock ==
    [][\A r \in Lookups :
          (CheckNil(r) \/ Search(r) \/ Convert(r)) => r \in rwReaders]_vars

\* Whether some stage of the build of archive z fails.
StageFails(z) ==
    \/ Len(z.locations) = 0
    \/ Len(z.blocks4) = 0
    \/ Len(z.blocks6) = 0
    \/ LET loc == LoadLocListGLite2(z.locations[1])
       IN  \/ loc.err # ""
           \/ LoadIPListGLite2(z.blocks4[1], loc.idMap).err # ""
           \/ LoadIPListGLite2(z.blocks6[1], loc.idMap).err # ""

FailingZips == {z \in Zips : StageFails(z)}

FailedLoad == wpc = "loaded" /\ archive \in FailingZips

\* C10: when a stage of the build fails, LoadGeoLite2 returns an error and
\* no dataset, and the current dataset stays as it was, open to lookups.
C10_FailedBuildLeavesCurrent ==
    /\ [](FailedLoad => /\ loaded.err # ""
                        /\ loaded.data = <<>>
                        /\ ~rwWriter /\ ~rwWaiting)
    /\ [][FailedLoad => /\ CurrentGeoDataset' = CurrentGeoDataset
                        /\ wpc' \in {"loaded", "idle"}]_vars

\* The build of the IPv6 blocks has failed while a dataset is published.
C10_Witness ==
    /\ wpc = "loaded"
    /\ archive = ZipBad6
    /\ loaded.err # ""
    /\ CurrentGeoDataset # <<>>

(***************************************************************************)
(* SpecCIDR: one call of rangeCIDR on any text "address/digit", the        *)
(* address of either family with any host bits, and on texts that are no   *)
(* CIDR.                                                                   *)
(***************************************************************************)
CidrTexts ==
    {a \o <<"/", DigitChars[d]>> : <<a, d>> \in (V4Texts \cup V6Texts) \X (1..10)}
        \cup V4Texts \cup {<<>>, <<"x">>, <<"/">>}

InitCIDR ==
    /\ cArg \in CidrTexts
    /\ cpc = "call"
    /\ cRet = NotRanged
    /\ locReader = <<>> /\ lpc = "idle" /\ locRet = LocFailed("")
    /\ zArg = NoZip /\ zpc = "idle" /\ zRet = NotLoaded
    /\ BuildIdle
    /\ SearchIdle
    /\ HandlerIdle

RunRangeCIDR ==
    /\ cpc = "call"
    /\ cRet' = rangeCIDR(cArg)
    /\ cpc' = "returned"
    /\ UNCHANGED <<cArg, locVars, loadVars, buildVars, searchVars, handlerVars>>

NextCIDR == RunRangeCIDR

SpecCIDR == InitCIDR /\ [][NextCIDR]_vars

\* The block the text names: its family's host-bit count and its network
\* address in 16-byte form.
cBlock == ParseCIDR(cArg)
cHostBits == IF cBlock.masklen = 4 THEN AddrBits - cBlock.ones ELSE Width - cBlock.ones
cNetwork == cBlock.ip - (cBlock.ip % Pow2(cHostBits))
LeadingBytes(a) == a \div Pow2(AddrBits)

\* C11: for every valid CIDR text, host bits set or not, rangeCIDR returns
\* low = the network address (host bits zero) and high = the network address
\* with every host bit set; for an IPv4 block the leading bytes of high are
\* those of low.
C11_LowIsNetworkAddress ==
    (cpc = "returned" /\ cBlock.ok) =>
        /\ cRet.err = ""
        /\ cRet.low = cNetwork
        /\ cRet.high = cNetwork + Pow2(cHostBits) - 1
        /\ (cBlock.masklen = 4 => LeadingBytes(cRet.high) = LeadingBytes(cRet.low))

\* C16: for every valid CIDR text, rangeCIDR returns low <= high, both in
\* the 16-byte form of the parsed address, and for an IPv4 block both inside
\* the IPv4 family.
C16_LowAtMostHighSameWidth ==
    (cpc = "returned" /\ cBlock.ok) =>
        /\ cRet.err = ""
        /\ cRet.low <= cRet.high
        /\ cRet.low \in 0..(Pow2(Width) - 1)
        /\ cRet.high \in 0..(Pow2(Width) - 1)
        /\ (cBlock.masklen = 4 => cRet.low \in V4Addrs /\ cRet.high \in V4Addrs)

\* An IPv4 block with a proper prefix, written with host bits set, has been
\* given its range.
C16_Witness ==
    /\ cpc = "returned"
    /\ cBlock.ok
    /\ cBlock.masklen = 4
    /\ cBlock.ones > 0
    /\ cHostBits > 0
    /\ cBlock.ip # cNetwork
    /\ cRet.high = cNetwork + Pow2(cHostBits) - 1

(***************************************************************************)
(* SpecLoc: one call of LoadLocListGLite2 on any locations file of up to   *)
(* MaxRecs data rows, each a well-formed row (geoname id 17 twice with     *)
(* different contents, 23, or all fields empty) or a row breaking one      *)
(* rule; and on the file with no row at all.                               *)
(***************************************************************************)
GoodLocRows ==
    {LocRow(<<"1", "7">>, <<"E", "U">>, <<"C", "H">>, <<"S">>, <<"Z">>, <<>>),
     LocRow(<<"2", "3">>, <<"N", "A">>, <<"U", "S">>, <<"U">>, <<"N">>, <<"5">>),
     LocRow(<<"1", "7">>, <<"A", "S">>, <<"J", "P">>, <<"J">>, <<"T">>, <<"7">>),
     LocRow(<<>>, <<>>, <<>>, <<>>, <<>>, <<>>)}

BadLocRows ==
    {LocRow(<<"x">>, <<"E", "U">>, <<"C", "H">>, <<"S">>, <<"Z">>, <<>>),
     LocRow(<<"1", "7">>, <<"e", "u">>, <<"C", "H">>, <<"S">>, <<"Z">>, <<>>),
     LocRow(<<"1", "7">>, <<"E", "U">>, <<"c", "h">>, <<"S">>, <<"Z">>, <<>>),
     LocRow(<<"1", "7">>, <<"E", "U">>, <<"C", "H">>, <<"S", "4">>, <<"Z">>, <<>>),
     LocRow(<<"1", "7">>, <<"E", "U">>, <<"C", "H">>, <<"S">>, <<"Z">>, <<"m">>),
     [LocRow(<<"1", "7">>, <<"E", "U">>, <<"C", "H">>, <<"S">>, <<"Z">>, <<>>)
         EXCEPT !.ncols = locationNumColumnsGlite2 - 1]}

RECURSIVE LocRowSeqs(_)
LocRowSeqs(n) ==
    IF n = 0 THEN {<<>>}
    ELSE LET prev == LocRowSeqs(n - 1)
         IN  prev \cup {Append(x[1], x[2]) :
                          x \in {y \in prev \X (GoodLocRows \cup BadLocRows) :
                                    Len(y[1]) = n - 1}}

LocFiles == {<<>>} \cup {<<LocHeader>> \o rows : rows \in LocRowSeqs(MaxRecs)}

InitLoc ==
    /\ locReader \in LocFiles
    /\ lpc = "call"
    /\ locRet = LocFailed("")
    /\ cArg = <<>> /\ cpc = "idle" /\ cRet = NotRanged
    /\ zArg = NoZip /\ zpc = "idle" /\ zRet = NotLoaded
    /\ BuildIdle
    /\ SearchIdle
    /\ HandlerIdle

RunLoadLocList ==
    /\ lpc = "call"
    /\ locRet' = LoadLocListGLite2(locReader)
    /\ lpc' = "returned"
    /\ UNCHANGED <<locReader, cidrVars, loadVars, buildVars, searchVars, handlerVars>>

NextLoc == RunLoadLocList

SpecLoc == InitLoc /\ [][NextLoc]_vars

LocDataRows == IF Len(locReader) = 0 THEN <<>> ELSE Tail(locReader)

\* C12: a locations file that holds a header record and no data record makes
\* LoadLocListGLite2 return an error.
C12_HeaderOnlyIsEmptyInput ==
    (lpc = "returned" /\ Len(locReader) = 1) => locRet.err # ""

\* The field rules of a location record, as the records are written.
IsNumber(str) == Len(str) > 0 /\ \A i \in 1..Len(str) : IsDigit(str[i])
UpperLettersOnly(str) == \A i \in 1..Len(str) : str[i] \in UpperChars
ViolatesFieldRule(row) ==
    \/ Len(row.geoname) > 0 /\ ~IsNumber(row.geoname)
    \/ ~UpperLettersOnly(row.continent)
    \/ ~UpperLettersOnly(row.country)
    \/ \E i \in 1..Len(row.countryName) : IsDigit(row.countryName[i])
    \/ Len(row.metro) > 0 /\ ~IsNumber(row.metro)

CorruptData ==
    {"Corrupted Data: wrong number of columns",
     "Corrupted Data: GeonameID should be a number",
     "Corrupted Data: should be all caps",
     "Corrupted Data: country name should be letters",
     "Corrupted Data: metrocode should be a number"}

RowGeonameID(row) == IF IsNumber(row.geoname) THEN DecVal(row.geoname) ELSE 0
LastRowWith(g) ==
    CHOOSE i \in 1..Len(LocDataRows) :
        /\ RowGeonameID(LocDataRows[i]) = g
        /\ \A j \in (i + 1)..Len(LocDataRows) : RowGeonameID(LocDataRows[j]) # g

\* C14: after a successful LoadLocListGLite2 the table holds one entry per
\* data record in input order, and for every geoname id g of the records
\* idToIndex[g] is the index of the last record carrying g, lies within the
\* table, and the entry there has GeonameID g.
C14_LastWriteWins ==
    (lpc = "returned" /\ locRet.err = "") =>
        /\ Len(locRet.list) = Len(LocDataRows)
        /\ \A i \in 1..Len(LocDataRows) :
              /\ locRet.list[i].GeonameID = RowGeonameID(LocDataRows[i])
              /\ locRet.list[i].ContinentCode = LocDataRows[i].continent
              /\ locRet.list[i].CityName = LocDataRows[i].city
        /\ DOMAIN locRet.idMap = {RowGeonameID(LocDataRows[i]) : i \in 1..Len(LocDataRows)}
        /\ \A g \in DOMAIN locRet.idMap :
              /\ locRet.idMap[g] = LastRowWith(g) - 1
              /\ locRet.idMap[g] \in 0..(Len(locRet.list) - 1)
              /\ locRet.list[locRet.idMap[g] + 1].GeonameID = g

\* Geoname id 17 came twice, with another id in between, and maps to its
\* second record.
C14_Witness ==
    /\ lpc = "returned"
    /\ locRet.err = ""
    /\ Len(LocDataRows) = 3
    /\ RowGeonameID(LocDataRows[1]) = 17
    /\ RowGeonameID(LocDataRows[2]) = 23
    /\ RowGeonameID(LocDataRows[3]) = 17
    /\ LocDataRows[1] # LocDataRows[3]
    /\ locRet.idMap[17] = 2
    /\ locRet.list[3] # locRet.list[1]

(***************************************************************************)
(* Further properties of the lookups (Spec) and of the builder             *)
(* (SpecBuild).                                                            *)
(***************************************************************************)
Returned(r) == hpc[r] \in {"ret168", "ret185", "ret188"}

\* C15: GetMetadataForSingleIP returns a non-nil pointer for every request
\* in every state: with no dataset published, with the address in no range,
\* with an IP format that is neither 4 nor 6.
C15_ReturnsNonNil ==
    \A r \in Lookups : Returned(r) => ret[r] # <<>>

\* C17: when a row's block begins after the top of the stack ends and,
\* the top (closed) popped, the block's low is at most the original high of
\* the new top (peek), the builder appends peek's node with low =
\* closed.high + 1 and high = new.low - 1, then the new node, and leaves peek
\* on the stack; only when the block's low is greater than peek's high is
\* peek emitted as [closed.high + 1, peek.high] and popped.
C17_GapFillStep ==
    [][(/\ ReadRecord
        /\ pc' = "loop"
        /\ Len(stack) >= 2
        /\ Last(stack).IPAddressHigh < Last(list').IPAddressLow)
       => LET closed == Last(stack)
              peek == stack[Len(stack) - 1]
              new == Last(list')
          IN  IF new.IPAddressLow <= peek.IPAddressHigh
              THEN /\ list' = list \o
                         <<[peek EXCEPT !.IPAddressLow = closed.IPAddressHigh + 1,
                                        !.IPAddressHigh = new.IPAddressLow - 1],
                           new>>
                   /\ stack' = Append(Front(stack), new)
              ELSE /\ list'[Len(list) + 1] =
                         [peek EXCEPT !.IPAddressLow = closed.IPAddressHigh + 1]
                   /\ \E k \in 0..(Len(stack) - 2) :
                         stack' = Append(SubSeq(stack, 1, k), new)]_vars

\* C18: the node appended for a row has the maximum address of its family
\* as its high, and the last node of the returned list still has it.
C18_LastNodeKeepsSentinel ==
    (pc \in {"loop", "done"} /\ Len(list) > 0) => Last(list).IPAddressHigh = MaxIPv4

(***************************************************************************)
(* SpecNested: one call of SearchList on any list that is ascending by low *)
(* and whose ranges are pairwise disjoint or nested, an enclosing range    *)
(* before the ranges it contains.                                          *)
(***************************************************************************)
\* Range <<lo, hi>> may follow node m of such a list.
MayFollow(m, lo, hi) ==
    /\ m.IPAddressLow <= lo
    /\ \/ m.IPAddressHigh < lo
       \/ hi <= m.IPAddressHigh

RECURSIVE NestedLists(_)
NestedLists(n) ==
    IF n = 0 THEN {<<>>}
    ELSE LET prev == NestedLists(n - 1)
         IN  prev \cup
             {Append(x[1], IPNode(x[2], x[3], n - 1, <<>>, 0, 0)) :
                 x \in {y \in prev \X V4Addrs \X V4Addrs :
                          /\ Len(y[1]) = n - 1
                          /\ y[2] <= y[3]
                          /\ \A k \in 1..Len(y[1]) : MayFollow(y[1][k], y[2], y[3])}}

InitNested ==
    /\ sList \in NestedLists(MaxNodes)
    /\ sLookUp \in LookUpTexts
    /\ spc = "call"
    /\ sOut = NotSearched
    /\ BuildIdle
    /\ HandlerIdle
    /\ ParserIdle

SpecNested == InitNested /\ [][NextSearch]_vars

Containing == {i \in 1..Len(sList) :
                  sList[i].IPAddressLow <= sIP /\ sIP <= sList[i].IPAddressHigh}
Size(n) == n.IPAddressHigh - n.IPAddressLow

\* C19: on such a list and a parsable address, SearchList returns a range
\* of the list that contains the address and is no larger than any other
\* range containing it, and fails with "Node not found" only if no range
\* contains the address.
C19_SearchFindsInnermost ==
    (spc = "returned" /\ ParseIP(sLookUp).ok) =>
        IF Containing = {}
        THEN sOut.err = "Node not found"
        ELSE /\ sOut.err = ""
             /\ \E i \in Containing :
                   /\ sOut.node = sList[i]
                   /\ \A j \in Containing : Size(sList[i]) <= Size(sList[j])

\* The address lies in three ranges nested in one another, and the
\* innermost, which is strictly smaller than the one around it, is returned.
C19_Witness ==
    /\ spc = "returned"
    /\ ParseIP(sLookUp).ok
    /\ Len(sList) = 3
    /\ Containing = {1, 2, 3}
    /\ Size(sList[3]) < Size(sList[2])
    /\ Size(sList[2]) < Size(sList[1])
    /\ sOut.err = ""
    /\ sOut.node = sList[3]

(***************************************************************************)
(* FairSpec: the lookups of IPv4 and ill-formed requests and the refresh   *)
(* task installing well-formed archives, where the lookups that hold the   *)
(* read lock and the refresh task that asks for or holds the write lock do *)
(* not all stop for ever while one of them can take a step.                *)
(***************************************************************************)
CallFair(r) == Call(r) /\ request'[r].IPFormat # 6

LoadFair == Load /\ archive' \in {ZipA, ZipB}

NextFair ==
    \/ \E r \in Lookups :
          CallFair(r) \/ CheckNil(r) \/ RLock(r) \/ Search(r) \/ Convert(r) \/ RUnlock(r)
    \/ LoadFair \/ Lock \/ Acquire \/ Swap \/ Unlock

LockStep ==
    \/ \E r \in Lookups : Search(r) \/ Convert(r) \/ RUnlock(r)
    \/ Acquire
    \/ Swap

FairSpec == Init /\ [][NextFair]_vars /\ WF_vars(LockStep)

\* Where a lookup stands when it does not hold the read lock: before
\* RLock, and after its return or its panic has run the deferred RUnlock.
OutsideLock == {"idle", "check", "rlock", "ret168", "ret185", "ret188", "panicked"}

\* C20: a lookup that took the read lock has released it when it returns,
\* on the success path and on every failure path; a lookup that returns
\* because no dataset is published never touches the lock; and a refresh
\* task waiting for the write lock comes to swap.
C20_LockReleasedWriterProceeds ==
    /\ [](\A r \in Lookups : hpc[r] \in OutsideLock => r \notin rwReaders)
    /\ [][\A r \in Lookups :
            (hpc[r] = "check" /\ hpc'[r] = "ret168") => rwReaders' = rwReaders]_vars
    /\ (wpc = "locking") ~> (wpc = "swapped")

\* The refresh task waits for the write lock while a lookup on a failure
\* path still holds the read lock, another lookup having returned early.
C20_Witness ==
    /\ wpc = "locking"
    /\ \E r1, r2 \in Lookups :
          /\ hpc[r1] = "ret168"
          /\ hpc[r2] = "unlock185"
          /\ r2 \in rwReaders

(***************************************************************************)
(* The nesting branch of the builder (SpecBuild).                          *)
(***************************************************************************)
\* C21: when the block of a row begins at or before the high of the top of
\* the stack, the list entry that is changed is the entry appended for that
\* top: its high becomes new.low - 1, its low and metadata and every other
\* entry stay, the new node is appended and pushed, and the stack's copy of
\* the top keeps its high.
C21_NestingClosesTopEntryOnly ==
    [][(/\ ReadRecord
        /\ pc' = "loop"
        /\ Len(stack) > 0
        /\ Last(list').IPAddressLow <= Last(stack).IPAddressHigh)
       => LET new == Last(list')
              k == Len(list)
          IN  /\ list[k] = Last(stack)
              /\ list' = Append([list EXCEPT ![k].IPAddressHigh = new.IPAddressLow - 1],
                                new)
              /\ stack' = Append(stack, new)]_vars

\* A block has been nested in the block before it: the entry of the outer
\* block ends right before the inner one, the stack's copy does not.
C21_Witness ==
    /\ pc = "loop"
    /\ Len(list) >= 2
    /\ Len(stack) >= 2
    /\ Last(list) = Last(stack)
    /\ Last(stack).IPAddressLow <= stack[Len(stack) - 1].IPAddressHigh
    /\ list[Len(list) - 1].IPAddressLow = stack[Len(stack) - 1].IPAddressLow
    /\ list[Len(list) - 1].IPAddressHigh = Last(list).IPAddressLow - 1
    /\ stack[Len(stack) - 1].IPAddressHigh > list[Len(list) - 1].IPAddressHigh

(***************************************************************************)
(* SpecResolve: one run of LoadIPListGLite2 on a file of one block, or of  *)
(* a block and a block nested in it, whose rows carry every pair of        *)
(* primary and backup geoname id: in the id map (17, 23), not in it (99),  *)
(* empty, not a number.                                                    *)
(***************************************************************************)
GeoTexts == {<<"1", "7">>, <<"2", "3">>, <<"9", "9">>, <<>>, <<"x">>}

GeoRow(cidr, g1, g2) ==
    [BlockRow(cidr, GeoColumns[1], "") EXCEPT !.geo1 = g1, !.geo2 = g2]

ResolveFiles ==
    {<<BlockHeader, GeoRow(V4Cidr(<<0, 0>>), g[1], g[2])>> : g \in GeoTexts \X GeoTexts}
    \cup
    {<<BlockHeader, GeoRow(V4Cidr(<<0, 0>>), g[1], g[2]),
       GeoRow(V4Cidr(<<0, 1>>), g[3], g[4])>> :
        g \in GeoTexts \X GeoTexts \X GeoTexts \X GeoTexts}

InitResolve ==
    /\ reader \in ResolveFiles
    /\ rd = 0 /\ list = <<>> /\ stack = <<>> /\ newNode = ZeroIPNode /\ err = ""
    /\ pc = "header"
    /\ SearchIdle
    /\ HandlerIdle
    /\ ParserIdle

SpecResolve == InitResolve /\ [][NextBuild]_vars

\* The geoname id text is a number that the id map holds.
InIdMap(str) == IsNumber(str) /\ DecVal(str) \in DOMAIN BuildIdMap

\* C22: if the primary geoname id of a row is in the id map, the node's
\* location reference is the primary's index whatever the backup id; if the
\* primary is absent or no number and the backup id is in the id map, it is
\* the backup's index; the build goes on in both cases.
C22_PrimaryThenBackup ==
    (pc # "header" /\ rd >= 2 /\ (InIdMap(reader[rd].geo1) \/ InIdMap(reader[rd].geo2)))
    => /\ pc # "failed"
       /\ err = ""
       /\ Len(list) > 0
       /\ Last(list).LocationIndex =
             IF InIdMap(reader[rd].geo1)
             THEN BuildIdMap[DecVal(reader[rd].geo1)]
             ELSE BuildIdMap[DecVal(reader[rd].geo2)]

\* A row whose primary id is no number and whose backup id is 23 has given
\* a node referring to the record of 23; the row before it, with both ids
\* in the map, a node referring to its primary.
C22_Witness ==
    /\ pc = "loop"
    /\ rd = 3
    /\ reader[2].geo1 = <<"1", "7">>
    /\ reader[2].geo2 = <<"2", "3">>
    /\ reader[3].geo1 = <<"x">>
    /\ reader[3].geo2 = <<"2", "3">>
    /\ list[1].LocationIndex = 0
    /\ list[2].LocationIndex = 1

(***************************************************************************)
(* SpecLoad: one call of LoadGeoLite2 on any archive made of a locations   *)
(* file and two blocks files, each well-formed, ill-formed, holding only   *)
(* its header, or missing.                                                 *)
(***************************************************************************)
LoadZips ==
    {Zip(loc, b4, b6) :
        <<loc, b4, b6>> \in
            {<<>>, <<BuildLocFile>>, <<LocFileB>>, <<LocFileLowerCase>>, <<<<LocHeader>>>>}
            \X {<<>>, <<Blocks4A>>, <<Blocks4B>>, <<Blocks4BadLat>>, <<<<BlockHeader>>>>}
            \X {<<>>, <<Blocks6A>>, <<Blocks6B>>, <<Blocks6BadCols>>, <<<<BlockHeader>>>>}}

InitLoad ==
    /\ zArg \in LoadZips
    /\ zpc = "call"
    /\ zRet = NotLoaded
    /\ cArg = <<>> /\ cpc = "idle" /\ cRet = NotRanged
    /\ locReader = <<>> /\ lpc = "idle" /\ locRet = LocFailed("")
    /\ BuildIdle
    /\ SearchIdle
    /\ HandlerIdle

RunLoadGeoLite2 ==
    /\ zpc = "call"
    /\ zRet' = LoadGeoLite2(zArg)
    /\ zpc' = "returned"
    /\ UNCHANGED <<zArg, cidrVars, locVars, buildVars, searchVars, handlerVars>>

NextLoad == RunLoadGeoLite2

SpecLoad == InitLoad /\ [][NextLoad]_vars

\* The nodes of both families of a dataset.
AllNodes(d) ==
    {d.IP4Nodes[i] : i \in 1..Len(d.IP4Nodes)} \cup {d.IP6Nodes[i] : i \in 1..Len(d.IP6Nodes)}

\* C23: in every dataset LoadGeoLite2 returns without error, the
\* LocationIndex of each node is the "none" value (negative) or an index of
\* the dataset's LocationNodes, so ConvertIPNodeToMetaData does not index
\* the location table out of bounds for any node.
C23_LocationIndexInTable ==
    (zpc = "returned" /\ zRet.err = "") =>
        \A n \in AllNodes(zRet.data[1]) :
            /\ \/ n.LocationIndex < 0
               \/ n.LocationIndex \in 0..(Len(zRet.data[1].LocationNodes) - 1)
            /\ ~ConvertIPNodeToMetaData(n, zRet.data[1].LocationNodes).panic
====
